---- MODULE Spec2Model ----
(***************************************************************************)
(* A model of the 3d-model-studio backend: the asset retriever             *)
(* (file_manager.py), the task poller (meshy_client.py) and the preview /  *)
(* refine handlers with their cache and history stores (main.py,           *)
(* database.py).  Spec runs the handlers call by call, SpecOutage with a   *)
(* redis server that can be lost and a database file that can turn         *)
(* unwritable, SpecServe with the event loop and the poll of a handler     *)
(* step by step; SpecFetch, SpecFetchSeq and SpecPoll run the asset        *)
(* retriever and the poller alone, SpecClient the create calls of the      *)
(* provider client, SpecCache the cache functions without redis.           *)
(*                                                                         *)
(* Conventions.  Python's None is the string None; a value is truthy when  *)
(* it is neither None nor the empty string.  A local path is written       *)
(* relative to STORAGE_BASE ("models/<file>", "previews/<file>").  The     *)
(* first 12 hex digits of md5(url) are written "md5(" url ")": the digest  *)
(* is kept symbolic, one digest per url.  Exception and log texts are      *)
(* sequences of tokens, so that python's `"x" in str(e)` is a membership   *)
(* test; the Chinese texts of the source are named in English:             *)
(*   任务失败 TaskFailed, 任务超时 TaskTimeout, 未知错误 UnknownError,     *)
(*   获取任务状态失败 GetStatusFailed, 创建预览任务失败 CreatePreviewFailed,*)
(*   创建精细化任务失败 CreateRefineFailed, 预览生成失败 PreviewFailed,    *)
(*   精细化失败 RefineFailed.                                              *)
(***************************************************************************)
EXTENDS Integers, Sequences, FiniteSets, TLC

(***************************************************************************)
(* Bounds of the model.                                                    *)
(***************************************************************************)
\* chunks of 8192 bytes in a downloaded file
NChunks == 2
\* fetch calls started in one behaviour of the asset retriever
MaxFetches == 3

\* max_wait_time and check_interval of a poll are drawn from 1..MaxWaitTime and
\* 1..MaxInterval, and a status call takes 0..MaxLatency units of time
MaxWaitTime == 3
MaxInterval == 2
MaxLatency == 2
\* preview and refine calls started in one behaviour of the handlers
MaxCalls == 2
\* status calls the poll of one handler call gets to make before its clock runs out
MaxPolls == 2

None == "None"

Truthy(v) == v # None /\ v # ""

\* python's `a or b`
OrElse(a, b) == IF Truthy(a) THEN a ELSE b

EmptyDict == [k \in {} |-> ""]

\* python's `key in dict` and dict.get(key, default)
Has(d, key) == key \in DOMAIN d
Get(d, key, default) == IF Has(d, key) THEN d[key] ELSE default

(***************************************************************************)
(* file_manager.py                                                         *)
(***************************************************************************)
MODELS_DIR == "models"
PREVIEWS_DIR == "previews"

\* the remote urls of the model, and the empty url
ModelUrlGlb == "http://x/m.glb"
ModelUrlObj == "http://x/m.OBJ"
ModelUrlGltf == "http://x/scene"
ThumbUrl == "http://x/t.jpg"

\* the last dot-separated piece of the url's path, lower-cased; glb when the
\* path holds no dot
get_file_extension(url) ==
    CASE url = ModelUrlGlb -> "glb"
      [] url = ModelUrlObj -> "obj"
      [] url = ThumbUrl -> "jpg"
      [] OTHER -> "glb"

Md5Prefix12(text) == "md5(" \o text \o ")"

generate_filename(original_url, prefix) ==
    LET url_hash == Md5Prefix12(original_url)
        extension == get_file_extension(original_url)
    IN  IF prefix # ""
        THEN prefix \o "_" \o url_hash \o "." \o extension
        ELSE url_hash \o "." \o extension

path_join(dir, filename) == dir \o "/" \o filename

\* A file's content: which of its chunks hold the bytes of the remote file.
EmptyFile == [i \in 1..NChunks |-> FALSE]
IsComplete(content) == \A i \in 1..NChunks : content[i]

\* a retriever that never looks whether the file is there
path_exists_never(fs, path) == FALSE

\* a retriever for which a file is there only when all of it is there
path_exists_complete(fs, path) == path \in DOMAIN fs /\ IsComplete(fs[path])

\* os.path.exists
path_exists(fs, path) == path \in DOMAIN fs

\* open(local_path, 'wb'): the file is created, or truncated when it exists
open_wb(fs, path) == [p \in DOMAIN fs \cup {path} |-> IF p = path THEN EmptyFile ELSE fs[p]]

\* f.write(chunk) at the writer's own offset
write_chunk(fs, path, i) == [fs EXCEPT ![path] = [@ EXCEPT ![i] = TRUE]]

\* a reference given without looking whether the file is there
get_file_url_unchecked(fs, local_path) == "/api/files/" \o local_path

get_file_url_for_frontend(fs, local_path) ==
    IF ~Truthy(local_path) \/ ~path_exists(fs, local_path)
    THEN ""
    ELSE "/api/files/" \o local_path

model_file_path(model_url, model_id) ==
    path_join(MODELS_DIR, generate_filename(model_url, "model_" \o model_id))

preview_image_path(preview_url, model_id) ==
    path_join(PREVIEWS_DIR, generate_filename(preview_url, "preview_" \o model_id))

format_file_path(format_name, url, model_id) ==
    path_join(MODELS_DIR, generate_filename(url, format_name \o "_" \o model_id))

\* How one run of download_file ends when nothing else touches the path:
\*   ok        every chunk written, True
\*   get_fail  requests.get or raise_for_status raises: no file, False
\*   open_fail makedirs or open raises: no file, False
\*   cut       the stream or a write raises before the last chunk: the file
\*             stays as opened and written so far (here: still empty), False
DownloadOutcomes == {"ok", "get_fail", "open_fail", "cut"}

download_file(fs, local_path, outcome) ==
    CASE outcome = "ok" ->
            [ok |-> TRUE,
             fs |-> [p \in DOMAIN fs \cup {local_path} |->
                        IF p = local_path THEN [i \in 1..NChunks |-> TRUE] ELSE fs[p]]]
      [] outcome = "cut" -> [ok |-> FALSE, fs |-> open_wb(fs, local_path)]
      [] OTHER -> [ok |-> FALSE, fs |-> fs]

\* download_model_file / download_preview_image run alone: [ref, fs, gets]
download_to(fs, url, local_path, outcome) ==
    IF ~Truthy(url) THEN [ref |-> None, fs |-> fs, gets |-> 0]
    ELSE IF path_exists(fs, local_path) THEN [ref |-> local_path, fs |-> fs, gets |-> 0]
    ELSE LET d == download_file(fs, local_path, outcome)
         IN  [ref |-> IF d.ok THEN local_path ELSE None, fs |-> d.fs, gets |-> 1]

download_model_file(fs, model_url, model_id, outcome) ==
    download_to(fs, model_url, model_file_path(model_url, model_id), outcome)

download_preview_image(fs, preview_url, model_id, outcome) ==
    download_to(fs, preview_url, preview_image_path(preview_url, model_id), outcome)

\* the order in which a mapping of formats is walked
FormatOrder == <<"glb", "gltf", "obj">>

\* download_all_formats, the formats from the i-th of FormatOrder on: the file
\* of a format is fetched when the download of its url succeeds (url \in ok_urls)
RECURSIVE all_formats_from(_, _, _, _, _, _)
all_formats_from(i, download_urls, model_id, ok_urls, fs, local_paths) ==
    IF i > Len(FormatOrder) THEN [paths |-> local_paths, fs |-> fs]
    ELSE LET format_name == FormatOrder[i]
         IN  IF ~Has(download_urls, format_name) \/ ~Truthy(download_urls[format_name])
             THEN all_formats_from(i + 1, download_urls, model_id, ok_urls, fs, local_paths)
             ELSE LET url == download_urls[format_name]
                      local_path == format_file_path(format_name, url, model_id)
                      d == IF path_exists(fs, local_path) THEN [ok |-> TRUE, fs |-> fs]
                           ELSE download_file(fs, local_path,
                                              IF url \in ok_urls THEN "ok" ELSE "get_fail")
                  IN  all_formats_from(i + 1, download_urls, model_id, ok_urls, d.fs,
                          IF d.ok THEN [f \in DOMAIN local_paths \cup {format_name} |->
                                           IF f = format_name THEN local_path ELSE local_paths[f]]
                          ELSE local_paths)

download_all_formats(fs, download_urls, model_id, ok_urls) ==
    all_formats_from(1, download_urls, model_id, ok_urls, fs, EmptyDict)

(***************************************************************************)
(* meshy_client.py                                                         *)
(***************************************************************************)
\* python's `token in text`, on texts that are sequences of tokens
Contains(text, token) == \E i \in 1..Len(text) : text[i] = token

\* texts a provider or a transport puts in an error: any text at all, among
\* them one that holds the words 任务失败
ErrorTexts == {<<"bad prompt">>, <<"502 Bad Gateway", "TaskFailed">>}

\* What one requests.get of get_task_status comes back with: the json of a
\* 2xx answer, or a requests.exceptions.RequestException with its text.
StatusInfo(info) == [kind |-> "info", info |-> info, text |-> <<>>]
StatusError(text) == [kind |-> "error", info |-> EmptyDict, text |-> text]
\* of a poll that made no status call
NoAnswer == [kind |-> "none", info |-> EmptyDict, text |-> <<>>]

\* get_task_status: the json, or Exception(f"获取任务状态失败: {str(e)}")
get_task_status(answer) ==
    IF answer.kind = "info"
    THEN [raised |-> FALSE, value |-> answer.info, exc |-> <<>>]
    ELSE [raised |-> TRUE, value |-> EmptyDict, exc |-> <<"GetStatusFailed">> \o answer.text]

\* One turn of the loop of wait_for_task_completion, from the answer of the
\* status call to what the loop does next:
\*   return (the task info), raise (an exception) or sleep (check_interval).
\* The try block; a raise in it is caught by the except clause below it.
\* a try block that takes every status it does not know for a failure
poll_try_strict(answer) ==
    LET got == get_task_status(answer)
        status == Get(got.value, "status", None)
    IN  IF got.raised THEN [act |-> "raise", value |-> EmptyDict, exc |-> got.exc]
        ELSE IF status = "SUCCEEDED" THEN [act |-> "return", value |-> got.value, exc |-> <<>>]
        ELSE IF status \in {"PENDING", "IN_PROGRESS"}
        THEN [act |-> "sleep", value |-> EmptyDict, exc |-> <<>>]
        ELSE [act |-> "raise", value |-> EmptyDict,
              exc |-> <<"TaskFailed">> \o Get(got.value, "error", <<"UnknownError">>)]

poll_try(answer) ==
    LET got == get_task_status(answer)
        status == Get(got.value, "status", None)
    IN  IF got.raised THEN [act |-> "raise", value |-> EmptyDict, exc |-> got.exc]
        ELSE IF status = "SUCCEEDED" THEN [act |-> "return", value |-> got.value, exc |-> <<>>]
        ELSE IF status = "FAILED"
        THEN [act |-> "raise", value |-> EmptyDict,
              exc |-> <<"TaskFailed">> \o Get(got.value, "error", <<"UnknownError">>)]
        ELSE [act |-> "sleep", value |-> EmptyDict, exc |-> <<>>]

\* an except clause that sleeps over every exception of the try block
poll_turn_forgiving(answer) ==
    LET t == poll_try(answer)
    IN  IF t.act = "raise" THEN [act |-> "sleep", value |-> EmptyDict, exc |-> <<>>] ELSE t

\* `except Exception as e`: re-raised when 任务失败 is in str(e), slept over otherwise
poll_turn(answer) ==
    LET t == poll_try(answer)
    IN  IF t.act = "raise" /\ ~Contains(t.exc, "TaskFailed")
        THEN [act |-> "sleep", value |-> EmptyDict, exc |-> <<>>]
        ELSE t

\* a poll that reports the end of its time as a failure of the task
timeout_as_failure(task_id) == <<"TaskFailed", task_id>>

\* raise Exception(f"任务超时: {task_id}")
timeout_exception(task_id) == <<"TaskTimeout", task_id>>

(***************************************************************************)
(* The asset retriever, one step at a time: download_model_file and        *)
(* download_preview_image called by the callers of Callers, each call      *)
(* running os.path.exists, requests.get, open, one write per chunk and the *)
(* close of the file as separate steps.                                    *)
(***************************************************************************)
VARIABLES
    files,       \* the storage directory: local path -> content
    fetcher,     \* caller -> the call it is in
    fetch_log,   \* the calls that returned, in the order they returned
    poll,        \* the poll in progress
    api_key,       \* meshy_client.api_key
    redis_client,  \* whether redis was reached at start-up
    redis_up,      \* whether the redis server can be reached now
    db_writable,   \* whether sqlite can write to storage/models.db now
    saved,         \* cache key -> the record the cache, called on its own, was last given
    redis,         \* the entries redis holds: key -> json text
    memory_cache,  \* main.memory_cache: key -> dict
    cache_db,      \* the table model_cache: key -> json text
    model_history, \* the table model_history: id -> row
    inflight,      \* the preview calls asleep in simulate_3d_generation
    ncalls,        \* the preview and refine calls started
    clock,         \* the steps the handlers have taken (the time they read)
    last,          \* the call that ended last: what it was given, answered and did
    serving        \* client -> the request it has sent and where the server is with it

orch_vars ==
    <<api_key, redis_client, redis_up, db_writable, saved, redis, memory_cache, cache_db, model_history,
      inflight, ncalls, clock, last>>
vars == <<files, fetcher, fetch_log, poll, orch_vars, serving>>

\* what a step of the asset retriever, of the poller and of a handler leaves alone
FetchFrame == UNCHANGED <<poll, orch_vars, serving>>
PollFrame == UNCHANGED <<files, fetcher, fetch_log, orch_vars, serving>>
OrchFrame == UNCHANGED <<fetcher, fetch_log, poll, serving>>

Callers == {"A", "B"}
\* the calls made: <<kind, url, model id>>
FetchInputs ==
    {<<"model", ModelUrlGlb, "t1">>, <<"model", ModelUrlGlb, "t2">>,
     <<"preview", ThumbUrl, "t1">>, <<"model", "", "t1">>}

IdleFetcher ==
    [pc |-> "idle", kind |-> "model", url |-> "", model_id |-> "", path |-> "",
     written |-> 0, gets |-> 0]

FetchIdle ==
    /\ fetcher = [c \in Callers |-> IdleFetcher]
    /\ fetch_log = <<>>

FetchesStarted == Len(fetch_log) + Cardinality({c \in Callers : fetcher[c].pc # "idle"})

fetch_path(kind, url, model_id) ==
    IF kind = "model" THEN model_file_path(url, model_id)
    ELSE preview_image_path(url, model_id)

\* The call of c returns ref: the log keeps what the caller and the path saw.
FetchReturn(c, call, ref, fs) ==
    /\ fetch_log' = Append(fetch_log,
          [caller |-> c, kind |-> call.kind, url |-> call.url, model_id |-> call.model_id,
           path |-> call.path, ref |-> ref, gets |-> call.gets,
           intact |-> IF ref = None THEN TRUE ELSE IsComplete(fs[ref]),
           left |-> ref = None /\ Truthy(call.url) /\ path_exists(fs, call.path)])
    /\ fetcher' = [fetcher EXCEPT ![c] = IdleFetcher]

\* download_model_file / download_preview_image up to os.path.exists
FetchCall(c, kind, url, model_id) ==
    LET path == fetch_path(kind, url, model_id)
        call == [pc |-> "get", kind |-> kind, url |-> url, model_id |-> model_id,
                 path |-> path, written |-> 0, gets |-> 0]
    IN  /\ fetcher[c].pc = "idle"
        /\ FetchesStarted < MaxFetches
        /\ IF ~Truthy(url) THEN FetchReturn(c, call, None, files)
           ELSE IF path_exists(files, path) THEN FetchReturn(c, call, path, files)
           ELSE /\ fetcher' = [fetcher EXCEPT ![c] = call]
                /\ UNCHANGED fetch_log
        /\ UNCHANGED files
        /\ FetchFrame

\* download_file: requests.get(url, stream=True, timeout=30), raise_for_status
FetchGet(c, ok) ==
    LET call == [fetcher[c] EXCEPT !.gets = @ + 1]
    IN  /\ fetcher[c].pc = "get"
        /\ IF ok
           THEN /\ fetcher' = [fetcher EXCEPT ![c] = [call EXCEPT !.pc = "open"]]
                /\ UNCHANGED fetch_log
           ELSE FetchReturn(c, call, None, files)
        /\ UNCHANGED files
        /\ FetchFrame

\* download_file: os.makedirs, open(local_path, 'wb')
FetchOpen(c, ok) ==
    /\ fetcher[c].pc = "open"
    /\ IF ok
       THEN /\ files' = open_wb(files, fetcher[c].path)
            /\ fetcher' = [fetcher EXCEPT ![c].pc = "write"]
            /\ UNCHANGED fetch_log
       ELSE /\ FetchReturn(c, fetcher[c], None, files)
            /\ UNCHANGED files
    /\ FetchFrame

\* download_file: one turn of `for chunk in response.iter_content(...)`
FetchWrite(c, ok) ==
    /\ fetcher[c].pc = "write"
    /\ fetcher[c].written < NChunks
    /\ IF ok
       THEN /\ files' = write_chunk(files, fetcher[c].path, fetcher[c].written + 1)
            /\ fetcher' = [fetcher EXCEPT ![c].written = @ + 1]
            /\ UNCHANGED fetch_log
       ELSE /\ FetchReturn(c, fetcher[c], None, files)
            /\ UNCHANGED files
    /\ FetchFrame

\* download_file: the stream is exhausted, the file is closed, True
FetchClose(c) ==
    /\ fetcher[c].pc = "write"
    /\ fetcher[c].written = NChunks
    /\ FetchReturn(c, fetcher[c], fetcher[c].path, files)
    /\ UNCHANGED files
    /\ FetchFrame

FetchStep(c) ==
    \/ \E in \in FetchInputs : FetchCall(c, in[1], in[2], in[3])
    \/ \E ok \in BOOLEAN : FetchGet(c, ok)
    \/ \E ok \in BOOLEAN : FetchOpen(c, ok)
    \/ \E ok \in BOOLEAN : FetchWrite(c, ok)
    \/ FetchClose(c)

(***************************************************************************)
(* The task poller, one step at a time: wait_for_task_completion with the  *)
(* clock.  elapsed is time.time() - start_time.                            *)
(***************************************************************************)
\* the task infos of a task that succeeded
TaskResults(task_id) ==
    {[status |-> "SUCCEEDED", id |-> task_id,
      model_urls |-> [glb |-> ModelUrlGlb, obj |-> ModelUrlObj],
      thumbnail_url |-> ThumbUrl],
     [status |-> "SUCCEEDED",
      model_urls |-> [gltf |-> ModelUrlGltf, obj |-> ModelUrlObj]],
     [status |-> "SUCCEEDED", model_urls |-> [obj |-> ModelUrlObj], preview_url |-> ThumbUrl],
     [status |-> "SUCCEEDED"]}

\* what a status call can come back with
StatusAnswers(task_id) ==
    {StatusInfo([status |-> st]) : st \in {"PENDING", "IN_PROGRESS", "EXPIRED", "FAILED"}}
    \cup {StatusInfo(EmptyDict)}
    \cup {StatusInfo([status |-> "FAILED", error |-> t]) : t \in ErrorTexts}
    \cup {StatusInfo(r) : r \in TaskResults(task_id)}
    \cup {StatusError(t) : t \in ErrorTexts}

IdlePoll ==
    [pc |-> "idle", task_id |-> "", max_wait_time |-> 0, check_interval |-> 0,
     elapsed |-> 0, calls |-> 0, latency |-> 0, answer |-> NoAnswer,
     outcome |-> "none", value |-> EmptyDict, exc |-> <<>>]

PollIdle == poll = IdlePoll

\* start_time = time.time()
PollInit ==
    \E max_wait_time \in 1..MaxWaitTime, check_interval \in 1..MaxInterval :
        poll = [IdlePoll EXCEPT !.pc = "check", !.task_id = "task-1",
                                !.max_wait_time = max_wait_time,
                                !.check_interval = check_interval]

\* a loop that goes round once more when the ceiling is just reached
within_ceiling_late(elapsed, max_wait_time) == elapsed <= max_wait_time

\* the test of the loop, `time.time() - start_time < max_wait_time`
within_ceiling(elapsed, max_wait_time) == elapsed < max_wait_time

\* `while time.time() - start_time < max_wait_time`, then requests.get is sent;
\* after the loop, raise Exception(f"任务超时: {task_id}")
PollIssue ==
    /\ poll.pc = "check"
    /\ IF within_ceiling(poll.elapsed, poll.max_wait_time)
       THEN poll' = [poll EXCEPT !.pc = "call", !.calls = @ + 1]
       ELSE poll' = [poll EXCEPT !.pc = "done", !.outcome = "raised",
                                 !.exc = timeout_exception(poll.task_id)]
    /\ PollFrame

\* the status call comes back after `latency` units of time (requests.get is
\* given no timeout), and the loop returns, raises or goes to sleep
PollAnswer(answer, latency) ==
    LET t == poll_turn(answer)
    IN  /\ poll.pc = "call"
        /\ poll' = [poll EXCEPT
              !.elapsed = @ + latency,
              !.latency = latency,
              !.answer = answer,
              !.pc = IF t.act = "sleep" THEN "sleep" ELSE "done",
              !.outcome = CASE t.act = "return" -> "returned"
                            [] t.act = "raise" -> "raised"
                            [] OTHER -> "none",
              !.value = t.value,
              !.exc = t.exc]
        /\ PollFrame

\* time.sleep(check_interval)
PollSleep ==
    /\ poll.pc = "sleep"
    /\ poll' = [poll EXCEPT !.pc = "check", !.elapsed = @ + poll.check_interval]
    /\ PollFrame

PollNext ==
    \/ PollIssue
    \/ \E answer \in StatusAnswers(poll.task_id), latency \in 0..MaxLatency : PollAnswer(answer, latency)
    \/ PollSleep

(***************************************************************************)
(* main.py and database.py: the cache, the history and the provider calls  *)
(* of the preview and refine handlers.  An optional dict (python's         *)
(* Optional[dict]) is <<>> for None and <<d>> for the dict d.  A quality   *)
(* score is written in hundredths.                                         *)
(***************************************************************************)
PreviewScore == 80
SimScoreMin == 70
SimScoreMax == 95
RefineScoreMin == 85
RefineScoreMax == 98

Md5Hex(text) == "md5hex(" \o text \o ")"

get_cache_key(content, input_type) ==
    "model_cache:" \o Md5Hex(input_type \o ":" \o content)

\* json.dumps and json.loads of a dict of strings, None, numbers and dicts of
\* strings: the text, and the dict read back from it
json_dumps(data) == <<"json", data>>
json_loads(text) == text[2]

\* the stores of the cache: [redis, memory, db]
EmptyStores == [redis |-> EmptyDict, memory |-> EmptyDict, db |-> EmptyDict]

Put(d, key, value) == [k \in DOMAIN d \cup {key} |-> IF k = key THEN value ELSE d[k]]
Drop(d, key) == [k \in DOMAIN d \ {key} |-> d[k]]

\* database.py
save_to_cache_db(db, cache_key, data) == Put(db, cache_key, json_dumps(data))

get_from_cache_db(db, cache_key) ==
    IF Has(db, cache_key) THEN <<json_loads(db[cache_key])>> ELSE <<>>

\* a cache that, without redis, keeps its entries in the cache table alone
save_to_cache_db_only(use_redis, stores, key, data) ==
    IF use_redis
    THEN [stores EXCEPT !.redis = Put(@, key, json_dumps(data))]
    ELSE [stores EXCEPT !.db = save_to_cache_db(@, key, data)]

save_to_cache(use_redis, stores, key, data) ==
    IF use_redis
    THEN [stores EXCEPT !.redis = Put(@, key, json_dumps(data))]
    ELSE [stores EXCEPT !.db = save_to_cache_db(@, key, data),
                        !.memory = Put(@, key, data)]

\* an entry is kept under key in the store the service reads
IsWarm(use_redis, stores, key) ==
    IF use_redis THEN Has(stores.redis, key)
    ELSE Has(stores.memory, key) \/ Has(stores.db, key)

\* a cache that has forgotten every entry
get_from_cache_cold(use_redis, stores, key) == <<>>

get_from_cache(use_redis, stores, key) ==
    IF use_redis
    THEN IF Has(stores.redis, key) THEN <<json_loads(stores.redis[key])>> ELSE <<>>
    ELSE IF Has(stores.memory, key) THEN <<stores.memory[key]>>
    ELSE get_from_cache_db(stores.db, key)

\* INSERT OR REPLACE INTO model_history, the columns the handlers fill in
save_model_to_history(history, model_data) ==
    Put(history, model_data.id,
        [input_type |-> model_data.input_type,
         input_content |-> model_data.input_content,
         stage |-> model_data.stage,
         model_url |-> model_data.model_url,
         preview_url |-> model_data.preview_url,
         download_urls |-> json_dumps(model_data.download_urls),
         quality_score |-> model_data.quality_score])

\* `meshy_client.api_key and meshy_client.api_key != "your_meshy_api_key_here"`
Placeholder == "your_meshy_api_key_here"
has_credential(key) == Truthy(key) /\ key # Placeholder

\* an HTTPException whose str() is empty
http_exception_str_blank(status_code, detail) == <<>>

\* str(e) of an HTTPException: "<status_code>: <detail>"
http_exception_str(status_code, detail) == <<status_code>> \o detail

\* generate_preview_from_text: complexity_settings.get(request.complexity,
\* complexity_settings["medium"]), the keyword arguments of create_preview_task
complexity_settings(complexity) ==
    CASE complexity = "low" -> [art_style |-> "realistic", should_remesh |-> FALSE]
      [] complexity = "high" ->
            [art_style |-> "realistic", should_remesh |-> TRUE,
             negative_prompt |-> "low quality, low resolution, low poly, ugly"]
      [] OTHER -> [art_style |-> "realistic", should_remesh |-> TRUE]

\* create_preview_task: the json it posts for a prompt and keyword arguments
create_preview_payload(prompt, kwargs) ==
    [mode |-> "preview",
     prompt |-> prompt,
     art_style |-> Get(kwargs, "art_style", "realistic"),
     ai_model |-> Get(kwargs, "ai_model", "meshy-5"),
     topology |-> Get(kwargs, "topology", "triangle"),
     target_polycount |-> Get(kwargs, "target_polycount", 30000),
     should_remesh |-> Get(kwargs, "should_remesh", TRUE),
     symmetry_mode |-> Get(kwargs, "symmetry_mode", "auto"),
     is_a_t_pose |-> Get(kwargs, "is_a_t_pose", FALSE),
     moderation |-> Get(kwargs, "moderation", FALSE)]
    @@ (IF Has(kwargs, "seed") THEN [seed |-> kwargs.seed] ELSE EmptyDict)

\* create_refine_task(preview_task_id) as refine_text_model calls it, with no
\* keyword argument: the json it posts
create_refine_payload(preview_task_id) ==
    [mode |-> "refine",
     preview_task_id |-> preview_task_id,
     enable_pbr |-> FALSE,
     ai_model |-> "meshy-5",
     moderation |-> FALSE]

\* what a call that makes its create call posts to the provider
posted_payload(op, content, complexity) ==
    IF op = "preview" THEN create_preview_payload(content, complexity_settings(complexity))
    ELSE create_refine_payload(content)

\* How the provider takes a create call: the task is created, the request
\* fails (RequestException with that text), or the answer has no 'result'.
CreateOutcomes ==
    {[kind |-> "ok", text |-> <<>>], [kind |-> "no_result", text |-> <<>>]}
    \cup {[kind |-> "error", text |-> t] : t \in ErrorTexts}

\* a client that posts once more when its post has failed
create_task_again(outcome, new_task_id, failed) ==
    CASE outcome.kind = "ok" ->
            [raised |-> FALSE, task_id |-> new_task_id, exc |-> <<>>, posts |-> 1]
      [] outcome.kind = "error" ->
            [raised |-> TRUE, task_id |-> None, exc |-> <<failed>> \o outcome.text,
             posts |-> 2]
      [] OTHER -> [raised |-> TRUE, task_id |-> None, exc |-> <<"'result'">>, posts |-> 1]

\* create_preview_task / create_refine_task followed by response['result']:
\* one requests.post (posts counts them), then the task id or the exception
create_task(outcome, new_task_id, failed) ==
    CASE outcome.kind = "ok" ->
            [raised |-> FALSE, task_id |-> new_task_id, exc |-> <<>>, posts |-> 1]
      [] outcome.kind = "error" ->
            [raised |-> TRUE, task_id |-> None, exc |-> <<failed>> \o outcome.text,
             posts |-> 1]
      [] OTHER -> [raised |-> TRUE, task_id |-> None, exc |-> <<"'result'">>, posts |-> 1]

\* wait_for_task_completion over the answers its status calls get: the clock
\* runs out after the last of them
RECURSIVE wait_from(_, _, _)
wait_from(task_id, answers, i) ==
    IF i > Len(answers)
    THEN [raised |-> TRUE, value |-> EmptyDict, exc |-> timeout_exception(task_id),
          calls |-> Len(answers),
          final |-> IF answers = <<>> THEN NoAnswer ELSE answers[Len(answers)]]
    ELSE LET t == poll_turn(answers[i])
         IN  CASE t.act = "return" ->
                    [raised |-> FALSE, value |-> t.value, exc |-> <<>>, calls |-> i,
                     final |-> answers[i]]
               [] t.act = "raise" ->
                    [raised |-> TRUE, value |-> EmptyDict, exc |-> t.exc, calls |-> i,
                     final |-> answers[i]]
               [] OTHER -> wait_from(task_id, answers, i + 1)

wait_for_task_completion(task_id, answers) == wait_from(task_id, answers, 1)

\* truthiness of a dict
OrElseDict(a, b) == IF DOMAIN a # {} THEN a ELSE b

\* how the download of url ends in a call during which the urls of ok_urls can
\* be fetched and the others cannot
UrlOutcome(url, ok_urls) == IF url \in ok_urls THEN "ok" ELSE "get_fail"

\* of a call that did not simulate: no time read, no listing
NoSim == [now |-> "", available_models |-> {}]

\* a handler that keeps a row of the history for a call that failed
Raise500_logged(detail, stores, history, fs, creates, status_calls, exc, final) ==
    [http |-> "error", detail |-> detail, response |-> EmptyDict,
     stores |-> stores, history |-> Put(history, "failed", [stage |-> "failed"]),
     files |-> fs,
     source |-> "none", creates |-> creates, status_calls |-> status_calls,
     final |-> final, exc |-> exc, ok_urls |-> {}, quality_score |-> 0, sim |-> NoSim]

\* a handler that answers a failure with a simulated success
Swallow500(detail, stores, history, fs, creates, status_calls, exc, final) ==
    [http |-> "ok", detail |-> <<>>, response |-> [success |-> TRUE],
     stores |-> stores, history |-> history, files |-> fs,
     source |-> "simulation", creates |-> creates, status_calls |-> status_calls,
     final |-> final, exc |-> exc, ok_urls |-> {}, quality_score |-> 0, sim |-> NoSim]

\* What a handler call comes to: http is "ok" (the response is sent) or "error"
\* (HTTPException, its detail), with the stores and files it leaves and what it
\* did on the way (the source of the result, the create and status calls made,
\* the answer of the last status call, the exception the client raised).
Raise500(detail, stores, history, fs, creates, status_calls, exc, final) ==
    [http |-> "error", detail |-> detail, response |-> EmptyDict,
     stores |-> stores, history |-> history, files |-> fs,
     source |-> "none", creates |-> creates, status_calls |-> status_calls,
     final |-> final, exc |-> exc, ok_urls |-> {}, quality_score |-> 0, sim |-> NoSim]

Return200(response, stores, history, fs, source, creates, status_calls, final, ok_urls, score) ==
    [http |-> "ok", detail |-> <<>>, response |-> response,
     stores |-> stores, history |-> history, files |-> fs,
     source |-> source, creates |-> creates, status_calls |-> status_calls,
     final |-> final, exc |-> <<>>, ok_urls |-> ok_urls, quality_score |-> score, sim |-> NoSim]

\* str(e) of the redis.exceptions.ConnectionError that redis_client.get and
\* redis_client.setex raise while the server cannot be reached
RedisDown == <<"Error connecting to redis">>

\* a handler whose get_from_cache or save_to_cache raised outside the try block
\* around the provider calls: `except Exception as e: raise
\* HTTPException(status_code=500, detail=str(e))`
cache_raised(stores, history, fs) ==
    Raise500(RedisDown, stores, history, fs, 0, 0, RedisDown, NoAnswer)

\* generate_preview_from_text, `if cached_result:`
preview_from_cache(cached_result, stores, history, fs) ==
    Return200([success |-> TRUE, task_id |-> cached_result.task_id,
               message |-> "PreviewOkCached",
               preview_url |-> Get(cached_result, "preview_url", None),
               thumbnail_url |-> None],
              stores, history, fs, "cache", 0, 0, NoAnswer, {}, 0)

\* a simulation that never looks into the models directory
simulate_unlisted(input_content, now, quality_score, available_models, selected_model) ==
    LET model_id == Md5Prefix12(input_content \o ":" \o now)
    IN  [model_id |-> model_id,
         model_url |-> "/api/models/" \o model_id \o ".glb",
         preview_url |-> "/api/previews/" \o model_id \o ".jpg",
         quality_score |-> quality_score]

\* simulate_3d_generation after its sleep: now is datetime.now(), quality_score
\* the number drawn, available_models the listing of the models directory and
\* selected_model the one random.choice picks
simulate_3d_generation(input_content, now, quality_score, available_models, selected_model) ==
    LET model_id == Md5Prefix12(input_content \o ":" \o now)
    IN  [model_id |-> model_id,
         model_url |-> IF available_models # {} THEN "/api/models/" \o selected_model
                       ELSE "/api/models/" \o model_id \o ".glb",
         preview_url |-> "/api/previews/" \o model_id \o ".jpg",
         quality_score |-> quality_score]

\* generate_preview_from_text without a credential, from the return of
\* simulate_3d_generation on
preview_from_simulation(text, task_id, simulation_result, use_redis, stores, history, fs) ==
    LET cache_key == get_cache_key(text, "text_preview")
        result == [task_id |-> task_id,
                   model_url |-> simulation_result.model_url,
                   preview_url |-> simulation_result.preview_url]
        record == [id |-> task_id, input_type |-> "text", input_content |-> text,
                   stage |-> "preview",
                   model_url |-> result.model_url,
                   preview_url |-> result.preview_url,
                   download_urls |-> [glb |-> result.model_url],
                   quality_score |-> simulation_result.quality_score]
    IN  Return200([success |-> TRUE, task_id |-> task_id, message |-> "PreviewOkSimulated",
                   preview_url |-> result.model_url,
                   thumbnail_url |-> result.preview_url],
                  save_to_cache(use_redis, stores, cache_key, result),
                  save_model_to_history(history, record),
                  fs, "simulation", 0, 0, NoAnswer, {}, simulation_result.quality_score)

\* generate_preview_from_text with a credential, once the files are fetched:
\* the result, its cache entry, its history row and the response
preview_done(text, task_id, final, model_url, preview_url, local_model_url, local_preview_url, ok_urls, status_calls, use_redis, stores, history, fs) ==
    LET result == [task_id |-> task_id,
                   model_url |-> OrElse(local_model_url, model_url),
                   preview_url |-> OrElse(local_preview_url, preview_url)]
        record == [id |-> task_id, input_type |-> "text", input_content |-> text,
                   stage |-> "preview",
                   model_url |-> OrElse(local_model_url, result.model_url),
                   preview_url |-> OrElse(local_preview_url, result.preview_url),
                   download_urls |-> [glb |-> OrElse(local_model_url, result.model_url)],
                   quality_score |-> PreviewScore]
    IN  Return200([success |-> TRUE, task_id |-> task_id, message |-> "PreviewOk",
                   preview_url |-> result.model_url,
                   thumbnail_url |-> result.preview_url],
                  save_to_cache(use_redis, stores, get_cache_key(text, "text_preview"), result),
                  save_model_to_history(history, record),
                  fs, "provider", 1, status_calls, final, ok_urls, PreviewScore)

\* generate_preview_from_text with a credential, once the task has succeeded:
\* the urls of the task info and the files fetched from them
preview_downloads(text, task_id, final, model_url, preview_url, ok_urls, status_calls, use_redis, stores, history, fs) ==
    LET got_model == download_model_file(fs, model_url, task_id, UrlOutcome(model_url, ok_urls))
        got_preview == download_preview_image(got_model.fs, preview_url, task_id,
                                              UrlOutcome(preview_url, ok_urls))
    IN  preview_done(text, task_id, final, model_url, preview_url,
            IF Truthy(model_url) THEN get_file_url_for_frontend(got_model.fs, got_model.ref)
            ELSE None,
            IF Truthy(preview_url)
            THEN get_file_url_for_frontend(got_preview.fs, got_preview.ref)
            ELSE None,
            ok_urls, status_calls, use_redis, stores, history, got_preview.fs)

\* a task info's model_urls['glb'], None without it
glb_url(task) ==
    IF Has(task, "model_urls") /\ Has(task.model_urls, "glb") THEN task.model_urls.glb
    ELSE None

\* generate_preview_from_text with a credential, from create_preview_task on
preview_from_provider(text, new_task_id, create, answers, ok_urls, use_redis, stores, history, fs) ==
    LET created == create_task(create, new_task_id, "CreatePreviewFailed")
        waited == wait_for_task_completion(new_task_id, answers)
    IN  IF created.raised
        THEN Raise500(http_exception_str("500", <<"PreviewFailed">> \o created.exc),
                      stores, history, fs, created.posts, 0, created.exc, NoAnswer)
        ELSE IF waited.raised
        THEN Raise500(http_exception_str("500", <<"PreviewFailed">> \o waited.exc),
                      stores, history, fs, 1, waited.calls, waited.exc, waited.final)
        ELSE preview_downloads(text, created.task_id, waited.final, glb_url(waited.value),
                               Get(waited.value, "thumbnail_url", None), ok_urls,
                               waited.calls, use_redis, stores, history, fs)

\* refine_text_model, `if cached_result: return GenerateResponse(**cached_result)`
\* a cache hit that leaves a row of its own in the history
refine_from_cache_logged(cached_result, stores, history, fs) ==
    Return200(cached_result, stores,
              Put(history, "hit_" \o cached_result.model_id, cached_result),
              fs, "cache", 0, 0, NoAnswer, {}, cached_result.quality_score)

refine_from_cache(cached_result, stores, history, fs) ==
    Return200(cached_result, stores, history, fs, "cache", 0, 0, NoAnswer, {},
              cached_result.quality_score)

\* refine_text_model with a credential, once the files are fetched: the
\* result, its cache entry, its history row and the response
refine_done(request_task_id, refine_task_id, final, model_url, preview_url, download_urls, local_model_url, local_preview_url, local_download_urls, ok_urls, quality_score, status_calls, use_redis, stores, history, fs) ==
    LET result == [success |-> TRUE,
                   model_id |-> Get(final.info, "id", refine_task_id),
                   model_url |-> OrElse(local_model_url, model_url),
                   preview_url |-> OrElse(local_preview_url, preview_url),
                   download_urls |-> OrElseDict(local_download_urls, download_urls),
                   message |-> "RefineOk",
                   quality_score |-> quality_score,
                   stage |-> "refined"]
        record == [id |-> result.model_id, input_type |-> "text",
                   input_content |-> "refined_" \o request_task_id,
                   stage |-> "refined",
                   model_url |-> result.model_url,
                   preview_url |-> result.preview_url,
                   download_urls |-> result.download_urls,
                   quality_score |-> result.quality_score]
    IN  Return200(result,
                  save_to_cache(use_redis, stores,
                                get_cache_key(request_task_id, "text_refine"), result),
                  save_model_to_history(history, record),
                  fs, "provider", 1, status_calls, final, ok_urls, quality_score)

\* the local urls of the files download_all_formats has fetched
local_urls_of(got_formats) ==
    [format_name \in DOMAIN got_formats.paths |->
        get_file_url_for_frontend(got_formats.fs, got_formats.paths[format_name])]

\* refine_text_model with a credential, once the task has succeeded: the urls
\* of the task info and the files fetched from them
refine_downloads(request_task_id, refine_task_id, final, model_url, preview_url, download_urls, ok_urls, quality_score, status_calls, use_redis, stores, history, fs) ==
    LET got_model == download_model_file(fs, model_url, refine_task_id,
                                         UrlOutcome(model_url, ok_urls))
        got_preview == download_preview_image(got_model.fs, preview_url, refine_task_id,
                                              UrlOutcome(preview_url, ok_urls))
        got_formats == download_all_formats(got_preview.fs, download_urls, refine_task_id,
                                            ok_urls)
    IN  refine_done(request_task_id, refine_task_id, final, model_url, preview_url,
            download_urls,
            IF Truthy(model_url) THEN get_file_url_for_frontend(got_model.fs, got_model.ref)
            ELSE None,
            IF Truthy(preview_url)
            THEN get_file_url_for_frontend(got_preview.fs, got_preview.ref)
            ELSE None,
            local_urls_of(got_formats),
            ok_urls, quality_score, status_calls, use_redis, stores, history, got_formats.fs)

\* the url of the model a refine call shows: glb, else gltf, else None
display_url(model_urls) ==
    IF Has(model_urls, "glb") THEN model_urls.glb
    ELSE IF Has(model_urls, "gltf") THEN model_urls.gltf
    ELSE None

\* thumbnail_url, else preview_url, else None
thumbnail_of(refine_result) ==
    IF Has(refine_result, "thumbnail_url") THEN refine_result.thumbnail_url
    ELSE Get(refine_result, "preview_url", None)

\* refine_text_model with a credential, from create_refine_task on
refine_from_provider(request_task_id, new_task_id, create, answers, ok_urls, quality_score, use_redis, stores, history, fs) ==
    LET created == create_task(create, new_task_id, "CreateRefineFailed")
        waited == wait_for_task_completion(new_task_id, answers)
    IN  IF created.raised
        THEN Raise500(http_exception_str("500", <<"RefineFailed">> \o created.exc),
                      stores, history, fs, created.posts, 0, created.exc, NoAnswer)
        ELSE IF waited.raised
        THEN Raise500(http_exception_str("500", <<"RefineFailed">> \o waited.exc),
                      stores, history, fs, 1, waited.calls, waited.exc, waited.final)
        ELSE refine_downloads(request_task_id, created.task_id, waited.final,
                              display_url(Get(waited.value, "model_urls", EmptyDict)),
                              thumbnail_of(waited.value),
                              Get(waited.value, "model_urls", EmptyDict),
                              ok_urls, quality_score, waited.calls,
                              use_redis, stores, history, fs)

\* refine_text_model without a credential
\* a simulated refinement that names its model after the drawn score as well
refine_simulation_scored(request_task_id, quality_score, use_redis, stores, history, fs) ==
    LET name == "refined_" \o request_task_id \o "_" \o ToString(quality_score)
        base == "http://localhost:8000/api/files/models/" \o name
        result == [success |-> TRUE, model_id |-> name,
                   model_url |-> base \o ".glb",
                   preview_url |-> "http://localhost:8000/api/files/previews/" \o name \o ".jpg",
                   download_urls |-> [glb |-> base \o ".glb", obj |-> base \o ".obj",
                                      stl |-> base \o ".stl", fbx |-> base \o ".fbx"],
                   message |-> "RefineOkSimulated",
                   quality_score |-> quality_score,
                   stage |-> "refined"]
    IN  Return200(result,
                  save_to_cache(use_redis, stores,
                                get_cache_key(request_task_id, "text_refine"), result),
                  history, fs, "simulation", 0, 0, NoAnswer, {}, quality_score)

refine_from_simulation(request_task_id, quality_score, use_redis, stores, history, fs) ==
    LET cache_key == get_cache_key(request_task_id, "text_refine")
        base == "http://localhost:8000/api/files/models/refined_" \o request_task_id
        result == [success |-> TRUE,
                   model_id |-> "refined_" \o request_task_id,
                   model_url |-> base \o ".glb",
                   preview_url |-> "http://localhost:8000/api/files/previews/refined_"
                                       \o request_task_id \o ".jpg",
                   download_urls |-> [glb |-> base \o ".glb", obj |-> base \o ".obj",
                                      stl |-> base \o ".stl", fbx |-> base \o ".fbx"],
                   message |-> "RefineOkSimulated",
                   quality_score |-> quality_score,
                   stage |-> "refined"]
        record == [id |-> result.model_id, input_type |-> "text",
                   input_content |-> "refined_" \o request_task_id,
                   stage |-> "refined",
                   model_url |-> result.model_url,
                   preview_url |-> result.preview_url,
                   download_urls |-> result.download_urls,
                   quality_score |-> result.quality_score]
    IN  Return200(result,
                  save_to_cache(use_redis, stores, cache_key, result),
                  save_model_to_history(history, record),
                  fs, "simulation", 0, 0, NoAnswer, {}, quality_score)


(***************************************************************************)
(* The handlers at work.  A handler runs from its first line to its return *)
(* without another handler in between (its calls block the event loop),    *)
(* but for the one await of the service: the sleep of                      *)
(* simulate_3d_generation, during which other calls are served.            *)
(***************************************************************************)
ApiKeys == {None, Placeholder, "msy-key"}
Texts == {"a red cube", "a cat"}
Complexities == {"low", "medium", "high"}
RefineInputs == {"task-1", "preview_1000"}
\* random.randint(1000, 9999)
SimTaskNumbers == {"1000", "9999"}
\* what os.listdir of the models directory holds that ends in .obj or .glb
ModelListings == {{}, {"cube.glb"}}
SimScores == {SimScoreMin, SimScoreMax}
RefineScores == {RefineScoreMin, RefineScoreMax}

\* The answers the status calls of one poll get: some that keep the loop
\* asleep, then one more, after which the loop has ended or the clock has run out.
Fillers == {StatusInfo([status |-> "PENDING"]), StatusError(<<"bad prompt">>)}
PollScripts(task_id) ==
    {[i \in 1..(k + 1) |-> IF i <= k THEN filler ELSE final] :
        k \in 0..(MaxPolls - 1), filler \in Fillers, final \in StatusAnswers(task_id)}

\* the urls a preview and a refine call download from
PreviewUrls(task) ==
    (IF Has(task, "model_urls") /\ Has(task.model_urls, "glb") THEN {task.model_urls.glb} ELSE {})
    \cup (IF Has(task, "thumbnail_url") THEN {task.thumbnail_url} ELSE {})
RefineUrls(task) ==
    (IF Has(task, "model_urls")
     THEN {task.model_urls[f] : f \in DOMAIN task.model_urls} ELSE {})
    \cup (IF Has(task, "thumbnail_url") THEN {task.thumbnail_url} ELSE {})
    \cup (IF Has(task, "preview_url") THEN {task.preview_url} ELSE {})

Stores == [redis |-> redis, memory |-> memory_cache, db |-> cache_db]

\* the service uses redis and the server cannot be reached: get and setex raise
RedisUnreachable == redis_client /\ ~redis_up

\* the id the provider gives the next task it creates
NewTaskId == "task-" \o ToString(clock + 1)

NoCall ==
    [op |-> "none", content |-> "", complexity |-> None, key |-> "", warm |-> FALSE,
     http |-> "none", detail |-> <<>>, response |-> EmptyDict,
     source |-> "none", creates |-> 0, status_calls |-> 0,
     final |-> NoAnswer, exc |-> <<>>, ok_urls |-> {}, quality_score |-> 0, sim |-> NoSim,
     payload |-> EmptyDict]

\* the clients of the service, and a client that has sent nothing; abandoned
\* is where the request was when its client gave it up ("no" while it has not)
Clients == {"c1", "c2"}
NoRequest == [pc |-> "away", text |-> "", abandoned |-> "no"]
ServeIdle == serving = [c \in Clients |-> NoRequest]

OrchIdle ==
    /\ ServeIdle
    /\ redis_up = TRUE
    /\ db_writable = TRUE
    /\ saved = EmptyDict
    /\ redis = EmptyDict /\ memory_cache = EmptyDict /\ cache_db = EmptyDict
    /\ model_history = EmptyDict
    /\ inflight = {}
    /\ ncalls = 0 /\ clock = 0
    /\ last = NoCall

\* the service after start-up: MESHY_API_KEY as the environment gives it, redis
\* connected or not, empty stores
OrchInit ==
    /\ api_key \in ApiKeys
    /\ redis_client \in BOOLEAN
    /\ OrchIdle

\* A table of models.db after the writes of a call.  save_to_cache_db and
\* save_model_to_history run their INSERT OR REPLACE and commit inside `try`,
\* and `except Exception` prints the error and returns False, which no caller
\* reads: when sqlite cannot write, the table is as it was and the call goes on.
db_commit(writable, before_call, after_call) == IF writable THEN after_call ELSE before_call

\* a call ends: its answer goes to the client, the stores are as it left them
Ended(op, content, complexity, cache_key, warm, out) ==
    /\ last' = [op |-> op, content |-> content, complexity |-> complexity,
                key |-> cache_key, warm |-> warm,
                http |-> out.http, detail |-> out.detail, response |-> out.response,
                source |-> out.source, creates |-> out.creates,
                status_calls |-> out.status_calls, final |-> out.final, exc |-> out.exc,
                ok_urls |-> out.ok_urls, quality_score |-> out.quality_score,
                sim |-> out.sim,
                payload |-> IF out.creates = 0 THEN EmptyDict
                            ELSE posted_payload(op, content, complexity)]
    /\ redis' = out.stores.redis
    /\ memory_cache' = out.stores.memory
    /\ cache_db' = db_commit(db_writable, cache_db, out.stores.db)
    /\ model_history' = db_commit(db_writable, model_history, out.history)
    /\ files' = out.files
    /\ clock' = clock + 1
    /\ UNCHANGED <<api_key, redis_client, redis_up, db_writable, saved>>

Finish(op, content, complexity, cache_key, warm, out) ==
    Ended(op, content, complexity, cache_key, warm, out) /\ OrchFrame

\* the downloads a call that got the task info `waited` can be given
DownloadChoices(waited, urls) == SUBSET (IF waited.raised THEN {} ELSE urls)

\* the scores random.uniform(0.85, 0.98) can give such a call
ScoreChoices(waited) == IF waited.raised THEN {0} ELSE RefineScores

\* POST /api/generate/text/preview.  Without a cached result and without a
\* credential the call draws its task id and waits in the sleep of
\* simulate_3d_generation.
generate_preview_from_text(text, complexity) ==
    LET cache_key == get_cache_key(text, "text_preview")
        warm == IsWarm(redis_client, Stores, cache_key)
        cached_result == get_from_cache(redis_client, Stores, cache_key)
    IN  /\ ncalls < MaxCalls
        /\ ncalls' = ncalls + 1
        /\ IF RedisUnreachable
           THEN /\ Finish("preview", text, complexity, cache_key, warm,
                          cache_raised(Stores, model_history, files))
                /\ UNCHANGED inflight
           ELSE IF cached_result # <<>>
           THEN /\ Finish("preview", text, complexity, cache_key, warm,
                          preview_from_cache(cached_result[1], Stores, model_history, files))
                /\ UNCHANGED inflight
           ELSE IF has_credential(api_key)
           THEN /\ \E create \in CreateOutcomes :
                   \E answers \in (IF create.kind = "ok" THEN PollScripts(NewTaskId)
                                   ELSE {<<>>}) :
                   \E ok_urls \in DownloadChoices(
                                      wait_for_task_completion(NewTaskId, answers),
                                      PreviewUrls(answers[Len(answers)].info)) :
                       Finish("preview", text, complexity, cache_key, warm,
                              preview_from_provider(text, NewTaskId, create, answers, ok_urls,
                                                    redis_client, Stores, model_history, files))
                /\ UNCHANGED inflight
           ELSE \E number \in SimTaskNumbers :
                    /\ inflight' = inflight \cup
                          {[ticket |-> clock + 1, text |-> text, complexity |-> complexity,
                            warm |-> warm, task_id |-> "preview_" \o number]}
                    /\ clock' = clock + 1
                    /\ UNCHANGED <<api_key, redis_client, redis_up, db_writable, saved, redis, memory_cache,
                                   cache_db, model_history, files, last>>
                    /\ OrchFrame

\* the sleep of simulate_3d_generation is over: the call goes on to its return
preview_after_simulation(call, quality_score, available_models, selected_model) ==
    LET now == "t" \o ToString(clock + 1)
        simulation_result ==
            simulate_3d_generation(call.text, now, quality_score, available_models,
                                   selected_model)
        out == IF RedisUnreachable THEN cache_raised(Stores, model_history, files)
               ELSE preview_from_simulation(call.text, call.task_id, simulation_result,
                                            redis_client, Stores, model_history, files)
    IN  /\ call \in inflight
        /\ inflight' = inflight \ {call}
        /\ Finish("preview", call.text, call.complexity,
                  get_cache_key(call.text, "text_preview"), call.warm,
                  [out EXCEPT !.sim = [now |-> now, available_models |-> available_models]])
        /\ UNCHANGED ncalls

\* POST /api/generate/text/refine
refine_text_model(request_task_id) ==
    LET cache_key == get_cache_key(request_task_id, "text_refine")
        warm == IsWarm(redis_client, Stores, cache_key)
        cached_result == get_from_cache(redis_client, Stores, cache_key)
    IN  /\ ncalls < MaxCalls
        /\ ncalls' = ncalls + 1
        /\ UNCHANGED inflight
        /\ IF RedisUnreachable
           THEN Finish("refine", request_task_id, None, cache_key, warm,
                       cache_raised(Stores, model_history, files))
           ELSE IF cached_result # <<>>
           THEN Finish("refine", request_task_id, None, cache_key, warm,
                       refine_from_cache(cached_result[1], Stores, model_history, files))
           ELSE IF has_credential(api_key)
           THEN \E create \in CreateOutcomes :
                \E answers \in (IF create.kind = "ok" THEN PollScripts(NewTaskId)
                                ELSE {<<>>}) :
                \E ok_urls \in DownloadChoices(
                                   wait_for_task_completion(NewTaskId, answers),
                                   RefineUrls(answers[Len(answers)].info)) :
                \E quality_score \in ScoreChoices(
                                         wait_for_task_completion(NewTaskId, answers)) :
                    Finish("refine", request_task_id, None, cache_key, warm,
                           refine_from_provider(request_task_id, NewTaskId, create, answers,
                                                ok_urls, quality_score,
                                                redis_client, Stores, model_history, files))
           ELSE \E quality_score \in RefineScores :
                    Finish("refine", request_task_id, None, cache_key, warm,
                           refine_from_simulation(request_task_id, quality_score,
                                                  redis_client, Stores, model_history, files))

\* redis drops an entry whose hour (setex key 3600) is over
redis_expire(key) ==
    /\ redis_client
    /\ key \in DOMAIN redis
    /\ redis' = Drop(redis, key)
    /\ UNCHANGED <<api_key, redis_client, redis_up, db_writable, saved, memory_cache, cache_db, model_history,
                   inflight, ncalls, clock, last, files>>
    /\ OrchFrame

(***************************************************************************)
(* The event loop.  uvicorn.run serves the application in one process on   *)
(* one event loop.  A handler is a coroutine: from its start to its next   *)
(* await the loop runs nothing else.  With a credential                    *)
(* generate_preview_from_text has no await: requests.post, requests.get,   *)
(* time.sleep and the downloads hold the loop until the handler returns.   *)
(* A request is away (not sent), queued (sent, its handler not started),   *)
(* running or answered.  Nothing in the handlers or in the client of the   *)
(* provider looks whether the client of the request is still there.        *)
(***************************************************************************)
\* the loop runs no handler
LoopFree == \A c \in Clients : serving[c].pc # "running"

\* a client sends POST /api/generate/text/preview (complexity left at its default)
ServeArrive(c, text) ==
    /\ serving[c].pc = "away"
    /\ serving' = [serving EXCEPT ![c] = [pc |-> "queued", text |-> text, abandoned |-> "no"]]
    /\ UNCHANGED <<files, fetcher, fetch_log, poll, orch_vars>>

\* the client gives up its request and closes the connection
ServeAbandon(c) ==
    /\ serving[c].pc \in {"queued", "running"}
    /\ serving[c].abandoned = "no"
    /\ serving' = [serving EXCEPT ![c].abandoned = serving[c].pc]
    /\ UNCHANGED <<files, fetcher, fetch_log, poll, orch_vars>>

\* wait_for_task_completion(task_id) as the handlers call it, with the default
\* max_wait_time and check_interval on the scale of the model
StartedPoll(task_id) ==
    [IdlePoll EXCEPT !.pc = "check", !.task_id = task_id,
                     !.max_wait_time = MaxWaitTime, !.check_interval = 1]

\* the loop starts the handler of a queued request: the handler runs up to its
\* return when the cache has the result or create_preview_task fails, and else
\* up to the first turn of wait_for_task_completion
ServeStart(c, create) ==
    LET text == serving[c].text
        cache_key == get_cache_key(text, "text_preview")
        cached_result == get_from_cache(redis_client, Stores, cache_key)
        created == create_task(create, NewTaskId, "CreatePreviewFailed")
    IN  /\ serving[c].pc = "queued"
        /\ LoopFree
        /\ has_credential(api_key)
        /\ IF RedisUnreachable \/ cached_result # <<>> \/ created.raised
           THEN /\ Ended("preview", text, "medium", cache_key,
                         IsWarm(redis_client, Stores, cache_key),
                         IF RedisUnreachable THEN cache_raised(Stores, model_history, files)
                         ELSE IF cached_result # <<>>
                         THEN preview_from_cache(cached_result[1], Stores, model_history, files)
                         ELSE preview_from_provider(text, NewTaskId, create, <<>>, {},
                                                    redis_client, Stores, model_history, files))
                /\ ncalls' = ncalls + 1
                /\ serving' = [serving EXCEPT ![c].pc = "answered"]
                /\ UNCHANGED <<poll, inflight>>
           ELSE /\ poll' = StartedPoll(NewTaskId)
                /\ serving' = [serving EXCEPT ![c].pc = "running"]
                /\ UNCHANGED <<files, orch_vars>>
        /\ UNCHANGED <<fetcher, fetch_log>>

\* wait_for_task_completion has returned or raised: the handler runs on to its
\* return (the downloads, the cache, the history, the response) or to its
\* HTTPException
ServeFinish(c, ok_urls) ==
    LET text == serving[c].text
    IN  /\ serving[c].pc = "running"
        /\ poll.pc = "done"
        /\ ok_urls \in SUBSET (IF poll.outcome = "returned" THEN PreviewUrls(poll.value) ELSE {})
        /\ Ended("preview", text, "medium", get_cache_key(text, "text_preview"), FALSE,
                 IF poll.outcome = "returned"
                 THEN preview_downloads(text, poll.task_id, poll.answer, glb_url(poll.value),
                                        Get(poll.value, "thumbnail_url", None), ok_urls,
                                        poll.calls, redis_client, Stores, model_history, files)
                 ELSE Raise500(http_exception_str("500", <<"PreviewFailed">> \o poll.exc),
                               Stores, model_history, files, 1, poll.calls, poll.exc,
                               poll.answer))
        /\ ncalls' = ncalls + 1
        /\ poll' = IdlePoll
        /\ serving' = [serving EXCEPT ![c].pc = "answered"]
        /\ UNCHANGED <<fetcher, fetch_log, inflight>>

\* the redis server, reached at start-up, goes away and comes back
redis_outage ==
    /\ redis_client
    /\ redis_up' = ~redis_up
    /\ UNCHANGED <<api_key, redis_client, db_writable, saved, redis, memory_cache, cache_db,
                   model_history, inflight, ncalls, clock, last, files>>
    /\ OrchFrame

\* models.db cannot be written (the file is locked by another connection, the
\* disk is full), or can be written again
db_outage ==
    /\ db_writable' = ~db_writable
    /\ UNCHANGED <<api_key, redis_client, redis_up, saved, redis, memory_cache, cache_db,
                   model_history, inflight, ncalls, clock, last, files>>
    /\ OrchFrame

Init == files = EmptyDict /\ FetchIdle /\ PollIdle /\ OrchInit

Next ==
    \/ \E text \in Texts, complexity \in Complexities :
          generate_preview_from_text(text, complexity)
    \/ \E call \in inflight, quality_score \in SimScores, available_models \in ModelListings :
          \E selected_model \in (IF available_models = {} THEN {""} ELSE available_models) :
              preview_after_simulation(call, quality_score, available_models, selected_model)
    \/ \E request_task_id \in RefineInputs : refine_text_model(request_task_id)
    \/ \E key \in DOMAIN redis : redis_expire(key)

Spec == Init /\ [][Next]_vars

\* the handlers with a redis server that can be lost after start-up and a
\* database file that can turn unwritable
OutageNext ==
    \/ \E text \in Texts, complexity \in Complexities :
          generate_preview_from_text(text, complexity)
    \/ \E call \in inflight, quality_score \in SimScores, available_models \in ModelListings :
          \E selected_model \in (IF available_models = {} THEN {""} ELSE available_models) :
              preview_after_simulation(call, quality_score, available_models, selected_model)
    \/ \E request_task_id \in RefineInputs : refine_text_model(request_task_id)
    \/ redis_outage
    \/ db_outage

SpecOutage == Init /\ [][OutageNext]_vars

\* the handlers at rest
OrchOff == api_key = None /\ redis_client = FALSE /\ OrchIdle

\* one caller: the calls follow one another
FetchInit == files = EmptyDict /\ FetchIdle /\ PollIdle /\ OrchOff
FetchSeqNext == FetchStep("A")
SpecFetchSeq == FetchInit /\ [][FetchSeqNext]_vars

\* two callers: the calls interleave
FetchNext == \E c \in Callers : FetchStep(c)
SpecFetch == FetchInit /\ [][FetchNext]_vars

\* one poll
PollSpecInit == files = EmptyDict /\ FetchIdle /\ PollInit /\ OrchOff
SpecPoll == PollSpecInit /\ [][PollNext]_vars

\* the service with a credential and its clients; the status calls get an
\* answer that keeps the poll asleep, a failure, or the result of the task
ServeAnswers(task_id) ==
    {StatusInfo([status |-> "PENDING"]),
     StatusError(<<"bad prompt">>),
     StatusInfo([status |-> "FAILED", error |-> <<"bad prompt">>]),
     StatusInfo([status |-> "SUCCEEDED", id |-> task_id,
                 model_urls |-> [glb |-> ModelUrlGlb, obj |-> ModelUrlObj],
                 thumbnail_url |-> ThumbUrl])}

ServeInit ==
    /\ files = EmptyDict /\ FetchIdle /\ PollIdle
    /\ api_key = "msy-key"
    /\ redis_client \in BOOLEAN
    /\ OrchIdle

ServeNext ==
    \/ \E c \in Clients, text \in Texts : ServeArrive(c, text)
    \/ \E c \in Clients : ServeAbandon(c)
    \/ \E c \in Clients, create \in CreateOutcomes : ServeStart(c, create)
    \/ PollIssue
    \/ \E answer \in ServeAnswers(poll.task_id), latency \in {0, MaxLatency} :
          PollAnswer(answer, latency)
    \/ PollSleep
    \/ \E c \in Clients, ok_urls \in SUBSET {ModelUrlGlb, ThumbUrl} : ServeFinish(c, ok_urls)

SpecServe == ServeInit /\ [][ServeNext]_vars

(***************************************************************************)
(* The provider client called on its own.  MeshyClient() is built whatever *)
(* MESHY_API_KEY holds (the constructor logs a warning and goes on), and   *)
(* its create methods are public: each builds its json, posts it with the  *)
(* headers of the constructor and hands back the answer, of which every    *)
(* caller takes ['result'].                                                *)
(***************************************************************************)
\* self.headers['Authorization'] as __init__ formats it
authorization(key) == "Bearer " \o key

\* a create call of the client has ended: what it posted, and its task id or
\* its exception
ClientEnded(op, content, complexity, payload, created) ==
    /\ ncalls' = ncalls + 1
    /\ clock' = clock + 1
    /\ last' = [NoCall EXCEPT !.op = op, !.content = content, !.complexity = complexity,
                              !.key = authorization(api_key),
                              !.http = IF created.raised THEN "error" ELSE "ok",
                              !.response = IF created.raised THEN EmptyDict
                                           ELSE [result |-> created.task_id],
                              !.source = "provider",
                              !.creates = created.posts,
                              !.exc = created.exc,
                              !.payload = payload]
    /\ UNCHANGED <<api_key, redis_client, redis_up, db_writable, saved, redis, memory_cache, cache_db,
                   model_history, inflight, files>>
    /\ OrchFrame

create_preview_task(prompt, complexity, outcome) ==
    /\ ncalls < MaxCalls
    /\ ClientEnded("create_preview", prompt, complexity,
                   create_preview_payload(prompt, complexity_settings(complexity)),
                   create_task(outcome, NewTaskId, "CreatePreviewFailed"))

create_refine_task(preview_task_id, outcome) ==
    /\ ncalls < MaxCalls
    /\ ClientEnded("create_refine", preview_task_id, None,
                   create_refine_payload(preview_task_id),
                   create_task(outcome, NewTaskId, "CreateRefineFailed"))

ClientNext ==
    \/ \E prompt \in Texts, complexity \in Complexities, outcome \in CreateOutcomes :
          create_preview_task(prompt, complexity, outcome)
    \/ \E preview_task_id \in RefineInputs, outcome \in CreateOutcomes :
          create_refine_task(preview_task_id, outcome)

SpecClient == Init /\ [][ClientNext]_vars

(***************************************************************************)
(* The cache called on its own, in a service that did not reach redis at   *)
(* start-up (redis_client is None): save_to_cache and get_from_cache over  *)
(* the memory dict and the cache table, with a database file that can turn *)
(* unwritable between the calls.                                           *)
(***************************************************************************)
CacheKeys == {get_cache_key(text, "text_preview") : text \in Texts}
CacheRecords ==
    {EmptyDict,
     [task_id |-> "task-1", model_url |-> ModelUrlGlb, preview_url |-> ThumbUrl],
     [task_id |-> "preview_1000", model_url |-> "/api/models/cube.glb", preview_url |-> None]}

\* save_to_cache(key, data): save_to_cache_db, whose failure is swallowed, then
\* memory_cache[key] = data
SaveToCache(key, data) ==
    /\ memory_cache' = save_to_cache(redis_client, Stores, key, data).memory
    /\ cache_db' = db_commit(db_writable, cache_db,
                             save_to_cache(redis_client, Stores, key, data).db)
    /\ saved' = Put(saved, key, data)
    /\ last' = [NoCall EXCEPT !.op = "save", !.key = key, !.payload = data]
    /\ UNCHANGED <<api_key, redis_client, redis_up, db_writable, redis, model_history,
                   inflight, ncalls, clock, files>>
    /\ OrchFrame

\* get_from_cache(key): what it returns is kept in last.final (<<>> for None)
GetFromCache(key) ==
    /\ last' = [NoCall EXCEPT !.op = "get", !.key = key,
                              !.final = get_from_cache(redis_client, Stores, key)]
    /\ UNCHANGED <<api_key, redis_client, redis_up, db_writable, saved, redis, memory_cache,
                   cache_db, model_history, inflight, ncalls, clock, files>>
    /\ OrchFrame

CacheInit == files = EmptyDict /\ FetchIdle /\ PollIdle /\ OrchOff

CacheNext ==
    \/ \E key \in CacheKeys, data \in CacheRecords : SaveToCache(key, data)
    \/ \E key \in CacheKeys : GetFromCache(key)
    \/ db_outage

SpecCache == CacheInit /\ [][CacheNext]_vars

(***************************************************************************)
(* C3, C4, C5: the asset retriever                                         *)
(***************************************************************************)
SameFetch(a, b) == a.kind = b.kind /\ a.url = b.url /\ a.model_id = b.model_id

NoFetchFailed == \A i \in 1..Len(fetch_log) : fetch_log[i].ref # None \/ ~Truthy(fetch_log[i].url)

\* C4: with two callers fetching at once and no download failing, a path
\* returned to a caller is the path of a file that is complete when it is returned.
C4_ConcurrentFetchIntact ==
    NoFetchFailed => \A i \in 1..Len(fetch_log) : fetch_log[i].intact

\* C5: a call whose download failed leaves no file at its local path, and so no
\* call is ever handed a path whose file is not complete.
C5_NoPartialFileLeft ==
    \A i \in 1..Len(fetch_log) : ~fetch_log[i].left /\ fetch_log[i].intact

(***************************************************************************)
(* C2: the task poller                                                     *)
(***************************************************************************)
PollTimedOut == poll.pc = "done" /\ poll.exc = timeout_exception(poll.task_id)

\* C2: a poll that never sees a terminal status has ended, with the timeout,
\* by the time max_wait_time + check_interval has elapsed.
C2_BoundedWait ==
    /\ poll.pc # "done" => poll.elapsed <= poll.max_wait_time + poll.check_interval
    /\ PollTimedOut => poll.elapsed <= poll.max_wait_time + poll.check_interval

(***************************************************************************)
(* C1, C6 - C10: the preview and refine handlers                           *)
(***************************************************************************)
PhaseTag(op) == IF op = "preview" THEN "text_preview" ELSE "text_refine"

\* the answer of a status call says FAILED with an error message, SUCCEEDED
FailedWithMessage(answer) ==
    /\ answer.kind = "info"
    /\ Get(answer.info, "status", None) = "FAILED"
    /\ Has(answer.info, "error")
Succeeded(answer) ==
    answer.kind = "info" /\ Get(answer.info, "status", None) = "SUCCEEDED"

EndsWith(text, m) ==
    Len(text) >= Len(m) /\ SubSeq(text, Len(text) - Len(m) + 1, Len(text)) = m

\* C1: the key of a preview or refine call is get_cache_key of its content and
\* its phase tag and of nothing else (the complexity of a preview call is no
\* part of it), and a call that starts while the cache keeps an entry under its
\* key, left there by a call that succeeded, is answered from that entry with
\* no create-task call and no status call.
C1_WarmCallsNoProvider ==
    last.op # "none" =>
        /\ last.key = get_cache_key(last.content, PhaseTag(last.op))
        /\ last.warm =>
              /\ last.http = "ok"
              /\ last.source = "cache"
              /\ last.creates = 0
              /\ last.status_calls = 0

\* a second call, with a credential, on a warm key
C1_Witness ==
    /\ last.warm
    /\ has_credential(api_key)
    /\ last.source = "cache"
    /\ ncalls = 2

\* a step is the whole of a refine call
RefineStep == ncalls' = ncalls + 1 /\ inflight' = inflight /\ last'.op = "refine"

\* C6: with a credential, a refine call whose task the provider reports FAILED
\* with the error message m ends in an error (no success result), the detail of
\* the error ends with m, and the call writes no row of the history.
C6_FailedRefineSurfaces ==
    [][(RefineStep /\ has_credential(api_key) /\ FailedWithMessage(last'.final)) =>
          /\ last'.http = "error"
          /\ EndsWith(last'.detail, last'.final.info.error)
          /\ model_history' = model_history]_vars

C6_Witness ==
    /\ last.op = "refine"
    /\ has_credential(api_key)
    /\ FailedWithMessage(last.final)
    /\ last.final.info.error = <<"bad prompt">>
    /\ last.http = "error"

\* the urls /api/models/<file> of the files of a listing
ListedUrls(available_models) == {"/api/models/" \o f : f \in available_models}

\* a preview call without a credential that started on a cold cache has ended
ColdSimulatedPreview ==
    last.op = "preview" /\ ~has_credential(api_key) /\ ~last.warm

FabricatedFor(text) ==
    {id \in DOMAIN model_history :
        /\ model_history[id].stage = "preview"
        /\ model_history[id].input_content = text
        /\ model_history[id].model_url \notin ListedUrls(UNION ModelListings)}

C8_ThumbnailFallsBack ==
    (/\ last.op = "preview"
     /\ Succeeded(last.final)
     /\ glb_url(last.final.info) # None
     /\ Has(last.final.info, "thumbnail_url")
     /\ glb_url(last.final.info) \in last.ok_urls
     /\ last.final.info.thumbnail_url \notin last.ok_urls) =>
        /\ last.http = "ok"
        /\ last.response.success
        /\ last.response.preview_url =
              "/api/files/" \o model_file_path(glb_url(last.final.info), last.response.task_id)
        /\ path_exists(files, model_file_path(glb_url(last.final.info), last.response.task_id))
        /\ last.response.thumbnail_url = last.final.info.thumbnail_url

C8_Witness ==
    /\ last.op = "preview"
    /\ Succeeded(last.final)
    /\ last.ok_urls = {ModelUrlGlb}
    /\ Has(last.final.info, "thumbnail_url")
    /\ last.response.thumbnail_url = ThumbUrl

\* C9 as claimed: the download mapping a refine call answers with holds every
\* format of the task's model_urls, with the local reference of the file when
\* its fetch succeeded and with the remote url when it failed.
C9_EveryFormatDegradesAlone ==
    (last.op = "refine" /\ Succeeded(last.final)) =>
        \A f \in DOMAIN Get(last.final.info, "model_urls", EmptyDict) :
            /\ Has(last.response.download_urls, f)
            /\ last.response.download_urls[f] =
                  IF last.final.info.model_urls[f] \in last.ok_urls
                  THEN "/api/files/" \o format_file_path(f, last.final.info.model_urls[f],
                                                         last.response.model_id)
                  ELSE last.final.info.model_urls[f]

\* a preview call with a credential met a failure of the provider: the create
\* call failed, or the poll ended without the task info (FAILED, an error that
\* ends it, the clock run out)
RemoteFailure ==
    /\ last.op = "preview"
    /\ has_credential(api_key)
    /\ last.creates = 1
    /\ \/ last.status_calls = 0
       \/ poll_turn(last.final).act # "return"

\* C10 as claimed: a preview call with a credential that meets a remote failure
\* falls back to the simulation and answers success.
C10_FailureFallsBack ==
    RemoteFailure => last.http = "ok" /\ last.source = "simulation"

\* C10, amended: a preview call with a credential that meets a remote failure
\* ends in an HTTP 500 error whose detail is 预览生成失败 followed by the text of
\* the failure; nothing is simulated and no entry is left under the key.
C10_FailureSurfaces ==
    RemoteFailure =>
        /\ last.http = "error"
        /\ last.source # "simulation"
        /\ last.detail = <<"500", "PreviewFailed">> \o last.exc
        /\ last.exc # <<>>
        /\ ~IsWarm(redis_client, Stores, last.key)

\* the poll of a preview call with a credential ran out of time
C10_Witness ==
    /\ RemoteFailure
    /\ last.http = "error"
    /\ last.status_calls = MaxPolls
    /\ Contains(last.exc, "TaskTimeout")

(***************************************************************************)
(* C11 - C20                                                               *)
(***************************************************************************)
\* the url of the model a call answers with: preview_url of a PreviewResponse
\* (the GLB file shown), model_url of a GenerateResponse
AnsweredModelUrl ==
    IF last.op = "preview" THEN last.response.preview_url ELSE last.response.model_url

\* C11: a preview or refine call ends in a failure that says what failed, or in
\* success=true with a model url that is not empty; a task that SUCCEEDED never
\* gives success=true without a model url, whatever formats its result holds.
C11_SuccessHasModelUrl ==
    last.op # "none" =>
        \/ last.http = "error" /\ last.detail # <<>>
        \/ last.http = "ok" /\ last.response.success /\ Truthy(AnsweredModelUrl)

\* a refine call was served by the provider: the formats of its task's result
RefinedByProvider == last.op = "refine" /\ last.http = "ok" /\ last.source = "provider"
RefinedFormats == Get(last.final.info, "model_urls", EmptyDict)

\* what shows the file of url to the client: the url itself, or the local
\* reference of the copy download_model_file keeps
ShownAs(url, model_id) == {url, "/api/files/" \o model_file_path(url, model_id)}

\* C12 as claimed: the model url a refine call answers with is that of the glb
\* format when the result has glb, else that of gltf when it has gltf, else that
\* of a format it has; it is absent only when the result has no format.
C12_DisplayUrlPreferred ==
    RefinedByProvider =>
        IF DOMAIN RefinedFormats = {} THEN last.response.model_url = None
        ELSE IF Has(RefinedFormats, "glb")
        THEN last.response.model_url \in ShownAs(RefinedFormats.glb, last.response.model_id)
        ELSE IF Has(RefinedFormats, "gltf")
        THEN last.response.model_url \in ShownAs(RefinedFormats.gltf, last.response.model_id)
        ELSE \E f \in DOMAIN RefinedFormats :
                last.response.model_url \in ShownAs(RefinedFormats[f], last.response.model_id)

\* a step in which a call ends: a whole call, or the rest of a simulated preview
CallEnds ==
    \/ ncalls' = ncalls + 1 /\ inflight' = inflight
    \/ ncalls' = ncalls /\ inflight' # inflight

\* C13 as claimed: no step changes or removes a row of the history, and a call
\* that ends in success without having been answered from the cache adds one row.
C13_HistoryImmutable ==
    [][/\ \A id \in DOMAIN model_history :
             Has(model_history', id) /\ model_history'[id] = model_history[id]
       /\ (CallEnds /\ last'.http = "ok" /\ last'.source # "cache") =>
             Cardinality(DOMAIN model_history') = Cardinality(DOMAIN model_history) + 1]_vars

\* a handler is inside the loop of wait_for_task_completion
InPollLoop == poll.pc \in {"check", "call", "sleep"}

\* C14 as claimed: while the handler of one request is inside its poll loop,
\* the handler of a request that waits can be started.
C14_OthersProgress ==
    \A c \in Clients :
        (serving[c].pc = "queued" /\ InPollLoop) =>
            ENABLED (\E create \in CreateOutcomes : ServeStart(c, create))

\* the request whose handler is polling has been abandoned by its client
PollAbandoned ==
    \E c \in Clients : serving[c].pc = "running" /\ serving[c].abandoned = "running"

\* C15 as claimed: once the client has abandoned the request whose handler is
\* polling, the poll sends no further status call, and it ends cancelled, with
\* no task info.
C15_AbandonedPollStops ==
    [][(PollAbandoned /\ InPollLoop) =>
          /\ poll'.calls = poll.calls
          /\ poll'.pc = "done" => poll'.outcome = "cancelled" /\ poll'.value = EmptyDict]_vars

\* C16 as claimed: the handler of a request its client has abandoned while the
\* handler was running (polling, or about to download) writes no entry of the
\* cache and no row of the history.
C16_AbandonedWritesNothing ==
    [][\A c \in Clients :
          (/\ serving[c].pc = "running"
           /\ serving[c].abandoned = "running"
           /\ serving'[c].pc = "answered") =>
              UNCHANGED <<redis, memory_cache, cache_db, model_history>>]_vars

\* C17 as claimed: a call whose cache lookup cannot be served, the redis server
\* being out of reach, goes on as on a miss: it goes to the simulation or to
\* the provider, and it does not end in an error without having got there.
C17_LookupFailureIsMiss ==
    [][(ncalls' = ncalls + 1 /\ RedisUnreachable) =>
          \/ inflight' # inflight
          \/ last'.http = "ok"
          \/ last'.creates = 1]_vars

\* the create call of the last call failed: requests.post raised, and the
\* client raised 创建预览任务失败 or 创建精细化任务失败
CreateFailed ==
    /\ last.op # "none"
    /\ last.exc # <<>>
    /\ last.exc[1] \in {"CreatePreviewFailed", "CreateRefineFailed"}

\* C18: a call whose create-task call fails makes no second create-task call
\* and no status call, and it ends in an error that carries the failure.
C18_CreateFailurePropagates ==
    CreateFailed =>
        /\ last.http = "error"
        /\ last.creates = 1
        /\ last.status_calls = 0
        /\ EndsWith(last.detail, last.exc)
        /\ last.source = "none"

C18_Witness ==
    /\ CreateFailed
    /\ last.op = "refine"
    /\ last.exc = <<"CreateRefineFailed", "bad prompt">>
    /\ last.http = "error"
    /\ last.status_calls = 0

\* the poll of the last call ran out of time (its last status call left it
\* asleep); the provider answered FAILED
WaitTimedOut ==
    /\ last.op # "none"
    /\ last.creates = 1
    /\ last.status_calls >= 1
    /\ last.final.kind \in {"info", "error"}
    /\ ~(last.final.kind = "error" /\ Contains(last.final.text, "TaskFailed"))
    /\ Get(last.final.info, "status", None) \notin {"SUCCEEDED", "FAILED"}
ProviderFailed ==
    /\ last.op # "none"
    /\ last.final.kind = "info"
    /\ Get(last.final.info, "status", None) = "FAILED"

\* C19: a call whose poll runs out of time ends in an error, and so does a call
\* whose task the provider reports FAILED; the exception of the poller and the
\* detail of the error begin with 任务超时 in the first case and with 任务失败 in
\* the second (after the status code and 预览生成失败 / 精细化失败 in the detail),
\* so the two are told apart.
C19_TimeoutDistinct ==
    /\ WaitTimedOut =>
          /\ last.http = "error"
          /\ last.exc[1] = "TaskTimeout"
          /\ last.detail = <<"500", IF last.op = "preview" THEN "PreviewFailed"
                                    ELSE "RefineFailed">> \o last.exc
    /\ ProviderFailed =>
          /\ last.http = "error"
          /\ last.exc[1] = "TaskFailed"
          /\ last.detail = <<"500", IF last.op = "preview" THEN "PreviewFailed"
                                    ELSE "RefineFailed">> \o last.exc

\* the poll of a refine call ran out of time after its last status call
C19_Witness ==
    /\ WaitTimedOut
    /\ last.op = "refine"
    /\ last.status_calls = MaxPolls
    /\ last.detail[3] = "TaskTimeout"

\* C20 as claimed: the create-preview payloads of the three tiers low, medium
\* and high differ from one another for the same prompt: what a preview call
\* posts is not what it would post for the same text with another tier.
C20_TiersDiffer ==
    (last.op = "preview" /\ last.creates = 1) =>
        \A other \in Complexities \ {last.complexity} :
            posted_payload("preview", last.content, other) # last.payload


(***************************************************************************)
(* C21 - C30                                                               *)
(***************************************************************************)
\* the download address a simulated refinement of task_id gives for a format
SimulatedRefineUrl(task_id, ext) ==
    "http://localhost:8000/api/files/models/refined_" \o task_id \o "." \o ext

KnownFormats == {"glb", "obj", "stl", "fbx"}

\* a refine call made without a credential that missed the cache
UncredentialedColdRefine ==
    last.op = "refine" /\ ~has_credential(api_key) /\ ~last.warm

\* C21: a refine call made with no credential (absent or the placeholder) on a
\* cold cache calls the provider not once and answers with success, stage
\* "refined", a model id and urls that are computed from the task id alone,
\* and one download url for each of glb, obj, stl and fbx.
C21_SimulatedRefine ==
    UncredentialedColdRefine =>
        /\ last.http = "ok"
        /\ last.creates = 0 /\ last.status_calls = 0
        /\ last.response.success = TRUE
        /\ last.response.stage = "refined"
        /\ last.response.model_id = "refined_" \o last.content
        /\ last.response.model_url = SimulatedRefineUrl(last.content, "glb")
        /\ last.response.preview_url =
               "http://localhost:8000/api/files/previews/refined_" \o last.content \o ".jpg"
        /\ DOMAIN last.response.download_urls = KnownFormats
        /\ \A f \in KnownFormats :
               last.response.download_urls[f] = SimulatedRefineUrl(last.content, f)

\* both credential-less configurations have served such a call
C21_Witness ==
    /\ UncredentialedColdRefine
    /\ api_key = Placeholder
    /\ last.content = "preview_1000"
    /\ last.quality_score = RefineScoreMax
    /\ last.response.download_urls.fbx = SimulatedRefineUrl("preview_1000", "fbx")


\* the client has made a create call while it held no credential
UncredentialedCreate ==
    last.op \in {"create_preview", "create_refine"} /\ ~has_credential(api_key)

\* C22: a create call of the client made while the credential is absent or
\* the placeholder fails with ProviderUnavailable and posts nothing to the
\* provider.
C22_NoCredentialNoPost ==
    UncredentialedCreate =>
        /\ last.http = "error"
        /\ last.exc = <<"ProviderUnavailable">>
        /\ last.creates = 0


\* the status a status call came back with (None when it has none)
StatusOf(answer) == Get(answer.info, "status", None)

\* a status call came back with SUCCEEDED or FAILED
TerminalStatus(answer) ==
    answer.kind = "info" /\ StatusOf(answer) \in {"SUCCEEDED", "FAILED"}

\* C23: the poller hands back a task info only when a status call came back
\* with SUCCEEDED, and it is the info of that call; once a status call has
\* come back with SUCCEEDED or FAILED the poll has ended and makes no other
\* status call.
C23_PollerOutcomes ==
    [][/\ poll'.outcome = "returned" =>
              /\ poll'.answer.kind = "info"
              /\ StatusOf(poll'.answer) = "SUCCEEDED"
              /\ poll'.value = poll'.answer.info
       /\ TerminalStatus(poll'.answer) =>
              /\ poll'.pc = "done"
              /\ poll'.outcome = IF StatusOf(poll'.answer) = "SUCCEEDED"
                                 THEN "returned" ELSE "raised"
       /\ TerminalStatus(poll.answer) => poll'.calls = poll.calls]_vars

\* a poll that slept once and then got the result of its task
C23_Witness ==
    /\ poll.outcome = "returned"
    /\ poll.calls = 2
    /\ poll.value = poll.answer.info
    /\ Has(poll.value, "model_urls")


\* C24: a status call that fails with a transport error never ends the poll,
\* whatever the text of the error: the poller sleeps check_interval, the time
\* of the sleep counts, and the poll goes on to its next check; an unsuccessful
\* poll ends only on a FAILED status or at the ceiling.
C24_TransientNeverEnds ==
    [][/\ (poll.pc = "call" /\ poll'.answer.kind = "error") =>
              poll'.pc = "sleep" /\ poll'.outcome = "none"
       /\ (poll.pc = "sleep" /\ poll.answer.kind = "error") =>
              poll'.pc = "check" /\ poll'.elapsed = poll.elapsed + poll.check_interval
       /\ poll'.outcome = "raised" =>
              \/ poll'.exc = timeout_exception(poll.task_id)
              \/ (poll'.answer.kind = "info" /\ StatusOf(poll'.answer) = "FAILED")]_vars


\* a status call came back with a json whose status is neither SUCCEEDED nor
\* FAILED: PENDING, IN_PROGRESS, no status at all, or a word the poller does
\* not know
NonTerminalStatus(answer) ==
    answer.kind = "info" /\ StatusOf(answer) \notin {"SUCCEEDED", "FAILED"}

\* C25: a status that is PENDING, IN_PROGRESS, missing or unknown keeps the
\* poll going: it is neither handed back as a result nor raised as a failure;
\* the poller sleeps exactly check_interval and, the ceiling not reached,
\* makes its next status call.
C25_OtherStatusKeepsPolling ==
    [][/\ (poll.pc = "call" /\ NonTerminalStatus(poll'.answer)) =>
              /\ poll'.pc = "sleep" /\ poll'.outcome = "none"
              /\ poll'.value = EmptyDict /\ poll'.exc = <<>>
       /\ (poll.pc = "sleep" /\ NonTerminalStatus(poll.answer)) =>
              /\ poll'.pc = "check"
              /\ poll'.elapsed = poll.elapsed + poll.check_interval
              /\ poll'.calls = poll.calls
       /\ (poll.pc = "check" /\ NonTerminalStatus(poll.answer)
                             /\ poll.elapsed < poll.max_wait_time) =>
              /\ poll'.pc = "call"
              /\ poll'.calls = poll.calls + 1
              /\ poll'.elapsed = poll.elapsed]_vars

\* the poll has made its next call after a status it does not know
C25_Witness ==
    /\ poll.pc = "call" /\ poll.calls = 2
    /\ poll.answer.kind = "info" /\ StatusOf(poll.answer) = "EXPIRED"
    /\ poll.elapsed = poll.check_interval


\* C26: the poll ends with the timeout exactly when its loop finds the
\* ceiling reached and no SUCCEEDED or FAILED status has been seen: it never
\* times out while less than max_wait_time has elapsed, and it makes no status
\* call once max_wait_time has elapsed.
C26_TimeoutAtCeiling ==
    [][/\ poll'.calls # poll.calls => poll.elapsed < poll.max_wait_time
       /\ (poll'.pc = "done" /\ poll'.exc = timeout_exception(poll.task_id)) =>
              /\ poll.elapsed >= poll.max_wait_time
              /\ poll'.elapsed = poll.elapsed
              /\ ~TerminalStatus(poll.answer)
       /\ (poll.pc = "check" /\ poll.elapsed >= poll.max_wait_time) =>
              /\ poll'.pc = "done" /\ poll'.outcome = "raised"
              /\ poll'.exc = timeout_exception(poll.task_id)]_vars

\* a poll that slept its way to the ceiling and timed out there
C26_Witness ==
    /\ PollTimedOut
    /\ poll.max_wait_time = 2 /\ poll.check_interval = 1
    /\ poll.elapsed = poll.max_wait_time
    /\ poll.calls = 2


\* a file is kept under the path
FileAt(fs, path) == path \in DOMAIN fs

\* C27: a fetch call that finds a file at the local path of its url and prefix
\* returns that path at once: it makes no network call (it never goes on to
\* requests.get) and leaves the files as they are.
C27_ExistingFileReturned ==
    [][\A c \in Callers :
          /\ (fetcher[c].pc = "idle" /\ Len(fetch_log') = Len(fetch_log) + 1
                 /\ fetch_log'[Len(fetch_log')].caller = c
                 /\ FileAt(files, fetch_log'[Len(fetch_log')].path)) =>
                /\ fetch_log'[Len(fetch_log')].ref = fetch_log'[Len(fetch_log')].path
                /\ fetch_log'[Len(fetch_log')].gets = 0
                /\ files' = files
          /\ (fetcher[c].pc = "idle" /\ fetcher'[c].pc # "idle") =>
                ~FileAt(files, fetcher'[c].path)]_vars

\* a preview image was asked for again and its path handed back with no
\* network call
C27_Witness ==
    \E i \in 2..Len(fetch_log) :
        /\ fetch_log[i].kind = "preview"
        /\ fetch_log[i].gets = 0
        /\ fetch_log[i].ref = fetch_log[i].path
        /\ FileAt(files, fetch_log[i].path)


\* C28: a preview or refine call answered from the cache writes no row of the
\* history and leaves the cache (redis, or the memory dict and the cache
\* table) as it was.
C28_CacheHitWritesNothing ==
    [][(CallEnds /\ last'.source = "cache") =>
          /\ last'.warm /\ last'.http = "ok"
          /\ model_history' = model_history
          /\ redis' = redis
          /\ memory_cache' = memory_cache
          /\ cache_db' = cache_db]_vars

\* a refine call answered from the cache, the history holding the row of the
\* call that filled the cache
C28_Witness ==
    /\ last.op = "refine"
    /\ last.source = "cache"
    /\ last.warm
    /\ Has(model_history, last.response.model_id)


\* C29: a preview or refine call that ends in failure (its create call
\* failed, the provider reported FAILED, or the poll ran out of time) leaves
\* the cache and the history as they were, and its key is still not in the
\* cache: a later call with the same input misses again.
C29_FailureWritesNothing ==
    [][(CallEnds /\ last'.http = "error") =>
          /\ model_history' = model_history
          /\ redis' = redis
          /\ memory_cache' = memory_cache
          /\ cache_db' = cache_db
          /\ ~last'.warm
          /\ ~IsWarm(redis_client,
                     [redis |-> redis', memory |-> memory_cache', db |-> cache_db'],
                     last'.key)]_vars

\* a preview call that the provider failed, after a call that had written its
\* row and its entry
C29_Witness ==
    /\ last.op = "preview"
    /\ last.http = "error"
    /\ ProviderFailed
    /\ last.creates = 1
    /\ ncalls = 2
    /\ model_history # EmptyDict
    /\ ~IsWarm(redis_client, Stores, last.key)


\* the id under which the history keeps the result of a call: the task id of
\* a preview, the model id of a refinement
ResultId(call) ==
    IF call.op = "preview" THEN call.response.task_id ELSE call.response.model_id

\* C30: when a preview or refine call that missed the cache answers with
\* success, the cache holds an entry under its key and the history holds a row
\* for its result by the time the response is sent.
C30_SuccessIsRecorded ==
    [][(CallEnds /\ last'.http = "ok" /\ ~last'.warm) =>
          /\ IsWarm(redis_client,
                    [redis |-> redis', memory |-> memory_cache', db |-> cache_db'],
                    last'.key)
          /\ Has(model_history', ResultId(last'))]_vars


(***************************************************************************)
(* C31 - C33                                                               *)
(***************************************************************************)
\* the entries a store keeps over a step are the ones it had
EntriesKept(before_step, after_step) ==
    \A k \in DOMAIN before_step : Has(after_step, k) => after_step[k] = before_step[k]

\* C31 as claimed: an entry of the cache is never replaced by another result
\* while it is there (it can only go away, by expiry or eviction), also when
\* two calls with the same content and phase run at the same time on a cold
\* cache.
C31_EntryNeverReplaced ==
    [][/\ EntriesKept(redis, redis')
       /\ EntriesKept(memory_cache, memory_cache')
       /\ EntriesKept(cache_db, cache_db')]_vars


\* a step in which a preview call is answered from the cache, right after the
\* preview call that missed the cache and wrote the entry it is answered from
HitAfterItsMiss ==
    /\ CallEnds
    /\ last'.op = "preview" /\ last'.http = "ok" /\ last'.source = "cache"
    /\ last.op = "preview" /\ last.http = "ok" /\ last.source # "cache"
    /\ last.key = last'.key

\* C32 as claimed: the response of a preview call answered from the cache has
\* the task id, the model url (preview_url of the PreviewResponse) and the
\* thumbnail url (thumbnail_url) of the response of the call that wrote the
\* entry, each in the same field.
C32_HitAnswersAsMiss ==
    [][HitAfterItsMiss =>
          /\ last'.response.task_id = last.response.task_id
          /\ last'.response.preview_url = last.response.preview_url
          /\ last'.response.thumbnail_url = last.response.thumbnail_url]_vars


\* C33: without redis, get_from_cache(key) after save_to_cache(key, d) returns
\* d, for every key and record and also when the write of the entry to the
\* database failed; get_from_cache of a key that was never saved returns None.
C33_SaveThenGet ==
    last.op = "get" =>
        last.final = IF Has(saved, last.key) THEN <<saved[last.key]>> ELSE <<>>

\* a record saved while the database could not be written, and read back
C33_Witness ==
    /\ last.op = "get"
    /\ Has(saved, last.key)
    /\ ~Has(cache_db, last.key)
    /\ last.final = <<[task_id |-> "task-1", model_url |-> ModelUrlGlb,
                       preview_url |-> ThumbUrl]>>

====
